---- MODULE Spec2Model ----
(***************************************************************************)
(* Model of zenml's pipeline Docker image build:                           *)
(*   src/src/zenml/config/docker_configuration.py  (DockerConfiguration)   *)
(*   src/src/zenml/utils/pipeline_docker_image_builder.py                  *)
(*       _include_active_profile, PipelineDockerImageBuilder               *)
(*   src/src/zenml/integrations/{aws,kubeflow}/__init__.py (REQUIREMENTS)  *)
(*                                                                         *)
(* Python values are modelled as follows.  Optional[str] is a sequence of  *)
(* length at most one (None is <<>>, "x" is <<"x">>), strings are TLA+     *)
(* strings built with \o exactly where the code builds an f-string or a    *)
(* join, an (insertion ordered) dict is a sequence of <<key, value>> pairs *)
(* with pairwise distinct keys, a set is a set.                            *)
(***************************************************************************)
EXTENDS Integers, Sequences, FiniteSets, TLC

\* ------------------------------------------------------------------ bounds
\* longest inline `requirements` list
MaxReqList == 2
\* longest `required_integrations` list
MaxIntegrations == 2
\* most entries of `environment`
MaxEnv == 2
\* longest list of requirement file names handed to the Dockerfile generator
MaxFiles == 2

\* ------------------------------------------------------- generic helpers
None == <<>>

Some(s) == <<s>>

\* Python truthiness of an Optional[str]: None and "" are falsy.
TruthyOpt(o) == o # None /\ o[1] # ""

Range(s) == {s[i] : i \in DOMAIN s}

\* All sequences over S of length at most n.
SeqsUpTo(S, n) == UNION {[1..k -> S] : k \in 0..n}

\* a mutation of Join: ", ".join
RECURSIVE JoinWithComma(_, _)
JoinWithComma(items, sep) ==
    IF items = <<>> THEN ""
    ELSE IF Len(items) = 1 THEN items[1]
    ELSE items[1] \o ", " \o JoinWithComma(Tail(items), sep)

\* str.join
RECURSIVE Join(_, _)
Join(items, sep) ==
    IF items = <<>> THEN ""
    ELSE IF Len(items) = 1 THEN items[1]
    ELSE items[1] \o sep \o Join(Tail(items), sep)

\* ------------------------------------------------------ module constants
DOCKER_IMAGE_WORKDIR == "/app"

DOCKER_IMAGE_ZENML_CONFIG_DIR == ".zenconfig"

DOCKER_IMAGE_ZENML_CONFIG_PATH ==
    DOCKER_IMAGE_WORKDIR \o "/" \o DOCKER_IMAGE_ZENML_CONFIG_DIR

\* zenml.__version__ and sys.version_info of the running interpreter
ZenmlVersion == "0.13.2"

PythonVersion == "3.8"

DEFAULT_DOCKER_PARENT_IMAGE ==
    "zenmldocker/zenml:" \o ZenmlVersion \o "-py" \o PythonVersion

\* zenml.constants.ENV_ZENML_CONFIG_PATH
ENV_ZENML_CONFIG_PATH == "ZENML_CONFIG_PATH"

\* PythonEnvironmentExportMethod and its `command` property
PythonEnvironmentExportMethod == {"pip_freeze", "poetry_export"}

command(method) ==
    IF method = "pip_freeze" THEN "pip freeze"
    ELSE "poetry export --format=requirements.txt"

\* names of the requirement files written by _gather_requirements_files
LOCAL_REQUIREMENTS_FILE == ".zenml_local_requirements"

USER_REQUIREMENTS_FILE == ".zenml_user_requirements"

INTEGRATION_REQUIREMENTS_FILE == ".zenml_integration_requirements"

\* ------------------------------------------------ the integration registry
\* Integration.NAME -> Integration.REQUIREMENTS of the integrations in src/
AWSIntegration == [NAME |-> "aws",
                   REQUIREMENTS |-> <<"boto3==1.21.0", "sagemaker==2.82.2">>]

KubeflowIntegration == [NAME |-> "kubeflow",
                        REQUIREMENTS |-> <<"kfp==1.8.9">>]

Integrations == {AWSIntegration, KubeflowIntegration}

IsRegistered(name) == \E i \in Integrations : i.NAME = name

\* integration_registry.select_integration_requirements(name), defined for
\* registered names only (an unknown name raises).
select_integration_requirements(name) ==
    (CHOOSE i \in Integrations : i.NAME = name).REQUIREMENTS

\* ---------------------------------------------- ordering of str (sorted)
\* Python compares str by code point.  The requirement strings that occur in
\* the model, listed in code point order ("P" = 80 < "b" = 98 < "k" < "s").
CodePointOrder ==
    <<"PyYAML", "boto3==1.21.0", "kfp==1.8.9", "sagemaker==2.82.2">>

Rank(s) == CHOOSE i \in DOMAIN CodePointOrder : CodePointOrder[i] = s

StrLess(a, b) == Rank(a) < Rank(b)

\* a mutation of sorted(): the elements in descending order
RECURSIVE sorted_descending(_)
sorted_descending(S) ==
    IF S = {} THEN <<>>
    ELSE LET m == CHOOSE x \in S : \A y \in S : ~StrLess(x, y)
         IN  <<m>> \o sorted_descending(S \ {m})

\* sorted(set_of_str)
RECURSIVE sorted(_)
sorted(S) ==
    IF S = {} THEN <<>>
    ELSE LET m == CHOOSE x \in S : \A y \in S : ~StrLess(y, x)
         IN  <<m>> \o sorted(S \ {m})

\* str.upper() on the environment keys that occur in the model
upper(key) ==
    CASE key = "a" -> "A"
      [] key = "A" -> "A"
      [] key = "b" -> "B"
      [] OTHER -> key

\* ------------------------------------------------- DockerConfiguration
ReqNone == [kind |-> "None", path |-> "", items |-> <<>>]

ReqPath(p) == [kind |-> "str", path |-> p, items |-> <<>>]

ReqList(l) == [kind |-> "List", path |-> "", items |-> l]

\* bool(docker_configuration.requirements)
TruthyRequirements(r) ==
    CASE r.kind = "str" -> r.path # ""
      [] r.kind = "List" -> r.items # <<>>
      [] OTHER -> FALSE

\* DockerConfiguration(): every field at its declared default
DockerConfiguration ==
    [parent_image |-> None,
     dockerfile |-> None,
     build_context_root |-> None,
     build_options |-> <<>>,
     target_repository |-> "zenml",
     replicate_local_python_environment |-> None,
     requirements |-> ReqNone,
     required_integrations |-> <<>>,
     install_stack_requirements |-> TRUE,
     environment |-> <<>>,
     dockerignore |-> None,
     copy_files |-> TRUE,
     copy_profile |-> TRUE]

\* ------------------------------------------- _gather_requirements_files
\* What the three external reads of the collator can give:
\*   shell  subprocess.check_output(command, shell=True)
\*   read   io_utils.read_file_contents_as_string(path)
\* each either fails (ok = FALSE) or returns text.
ExtFail == [ok |-> FALSE, out |-> ""]

ExtText(t) == [ok |-> TRUE, out |-> t]

NoError == "none"

GatherLocalSkipsFailedExport(c, shell) ==
    IF c.replicate_local_python_environment # None /\ shell.ok
    THEN [error |-> NoError,
          files |-> <<<<LOCAL_REQUIREMENTS_FILE, shell.out>>>>]
    ELSE [error |-> NoError, files |-> <<>>]

\* lines 134-149: the local environment
GatherLocal(c, shell) ==
    IF c.replicate_local_python_environment # None
    THEN IF shell.ok
         THEN [error |-> NoError,
               files |-> <<<<LOCAL_REQUIREMENTS_FILE, shell.out>>>>]
         ELSE [error |-> "RuntimeError", files |-> <<>>]
    ELSE [error |-> NoError, files |-> <<>>]

\* lines 151-172: the user-defined requirements
GatherUser(c, read) ==
    LET r == c.requirements
        failed == r.kind = "str" /\ ~read.ok
        user_requirements ==
            CASE r.kind = "str" -> Some(read.out)
              [] r.kind = "List" -> Some(Join(r.items, "\n"))
              [] OTHER -> None
    IN  IF failed THEN [error |-> "OSError", files |-> <<>>]
        ELSE IF TruthyOpt(user_requirements)
        THEN [error |-> NoError,
              files |-> <<<<USER_REQUIREMENTS_FILE, user_requirements[1]>>>>]
        ELSE [error |-> NoError, files |-> <<>>]

\* lines 175-185: set(chain(...)) of the integrations, plus the stack's
IntegrationRequirements(c, stack_requirements) ==
    UNION {Range(select_integration_requirements(n)) :
              n \in {m \in Range(c.required_integrations) : IsRegistered(m)}}
    \cup (IF c.install_stack_requirements THEN stack_requirements ELSE {})

\* lines 174-201: the integration requirements
GatherIntegrations(c, stack_requirements) ==
    LET unknown == \E n \in Range(c.required_integrations) : ~IsRegistered(n)
        integration_requirements ==
            IntegrationRequirements(c, stack_requirements)
    IN  IF unknown THEN [error |-> "KeyError", files |-> <<>>]
        ELSE IF integration_requirements # {}
        THEN [error |-> NoError,
              files |-> <<<<INTEGRATION_REQUIREMENTS_FILE,
                            Join(sorted(integration_requirements), "\n")>>>>]
        ELSE [error |-> NoError, files |-> <<>>]

\* a mutation of gather_requirements_files: integration file put first
gather_requirements_files_integration_first(c, stack_requirements, shell, read) ==
    LET l == GatherLocal(c, shell)
        u == GatherUser(c, read)
        i == GatherIntegrations(c, stack_requirements)
    IN  IF l.error # NoError THEN l
        ELSE IF u.error # NoError THEN u
        ELSE IF i.error # NoError THEN i
        ELSE [error |-> NoError, files |-> i.files \o l.files \o u.files]

\* _gather_requirements_files(docker_configuration, stack): the list of
\* (file name, content), or the first error raised.
gather_requirements_files(c, stack_requirements, shell, read) ==
    LET l == GatherLocal(c, shell)
        u == GatherUser(c, read)
        i == GatherIntegrations(c, stack_requirements)
    IN  IF l.error # NoError THEN l
        ELSE IF u.error # NoError THEN u
        ELSE IF i.error # NoError THEN i
        ELSE [error |-> NoError, files |-> l.files \o u.files \o i.files]

\* ---------------------------------- _generate_zenml_pipeline_dockerfile
\* lines 231-232: one ENV line per item of the environment dict
RECURSIVE EnvironmentLines(_)
EnvironmentLines(environment) ==
    IF environment = <<>> THEN <<>>
    ELSE <<"ENV " \o upper(environment[1][1]) \o "=" \o environment[1][2]>>
         \o EnvironmentLines(Tail(environment))

\* lines 234-236: COPY and RUN pip install per requirements file
RECURSIVE RequirementsLines(_)
RequirementsLines(requirements_files) ==
    IF requirements_files = <<>> THEN <<>>
    ELSE <<"COPY " \o requirements_files[1] \o " .",
           "RUN pip install --no-cache-dir -r " \o requirements_files[1]>>
         \o RequirementsLines(Tail(requirements_files))

\* a mutation of the generator: the entrypoint declared before the chmod
generate_entrypoint_before_chmod(parent_image, c, requirements_files, entrypoint) ==
    <<"FROM " \o parent_image, "WORKDIR " \o DOCKER_IMAGE_WORKDIR>>
    \o (IF c.copy_profile
        THEN <<"ENV " \o ENV_ZENML_CONFIG_PATH \o "="
                \o DOCKER_IMAGE_ZENML_CONFIG_PATH>>
        ELSE <<>>)
    \o EnvironmentLines(c.environment)
    \o RequirementsLines(requirements_files)
    \o (IF c.copy_files THEN <<"COPY . .">>
        ELSE IF c.copy_profile
        THEN <<"COPY " \o DOCKER_IMAGE_ZENML_CONFIG_DIR \o " .">>
        ELSE <<>>)
    \o (IF TruthyOpt(entrypoint) THEN <<"ENTRYPOINT " \o entrypoint[1]>>
        ELSE <<>>)
    \o <<"RUN chmod -R a+rw .">>

\* a mutation of the generator: both copies when both flags are set
generate_both_copies(parent_image, c, requirements_files, entrypoint) ==
    <<"FROM " \o parent_image, "WORKDIR " \o DOCKER_IMAGE_WORKDIR>>
    \o (IF c.copy_profile
        THEN <<"ENV " \o ENV_ZENML_CONFIG_PATH \o "="
                \o DOCKER_IMAGE_ZENML_CONFIG_PATH>>
        ELSE <<>>)
    \o EnvironmentLines(c.environment)
    \o RequirementsLines(requirements_files)
    \o (IF c.copy_files THEN <<"COPY . .">> ELSE <<>>)
    \o (IF c.copy_profile
        THEN <<"COPY " \o DOCKER_IMAGE_ZENML_CONFIG_DIR \o " .">>
        ELSE <<>>)
    \o <<"RUN chmod -R a+rw .">>
    \o (IF TruthyOpt(entrypoint) THEN <<"ENTRYPOINT " \o entrypoint[1]>>
        ELSE <<>>)

\* _generate_zenml_pipeline_dockerfile(parent_image, docker_configuration,
\* requirements_files, entrypoint): the lines of the Dockerfile
generate_zenml_pipeline_dockerfile(parent_image, c, requirements_files, entrypoint) ==
    <<"FROM " \o parent_image, "WORKDIR " \o DOCKER_IMAGE_WORKDIR>>
    \o (IF c.copy_profile
        THEN <<"ENV " \o ENV_ZENML_CONFIG_PATH \o "="
                \o DOCKER_IMAGE_ZENML_CONFIG_PATH>>
        ELSE <<>>)
    \o EnvironmentLines(c.environment)
    \o RequirementsLines(requirements_files)
    \o (IF c.copy_files THEN <<"COPY . .">>
        ELSE IF c.copy_profile
        THEN <<"COPY " \o DOCKER_IMAGE_ZENML_CONFIG_DIR \o " .">>
        ELSE <<>>)
    \o <<"RUN chmod -R a+rw .">>
    \o (IF TruthyOpt(entrypoint) THEN <<"ENTRYPOINT " \o entrypoint[1]>>
        ELSE <<>>)

\* ------------------------------------------------------------ the state
VARIABLES
    \* arguments and collaborators of one call
    cfg,                    \* docker_configuration
    docker_parent_image,    \* self.docker_parent_image
    stack_requirements,     \* stack.requirements()
    entrypoint,             \* entrypoint
    target_image_name,      \* target_image_name
    pipeline_name,          \* pipeline_name
    \* position and locals of the call
    pc,
    requires_zenml_build,
    parent_image,
    requirement_files,
    requirements_file_names,
    dockerfile,
    pull_parent_image,
    build_context_root,
    pending,                \* exception travelling through the with block
    \* what the call did and how it ended
    calls,                  \* the external calls made, in order
    filesystem,             \* the directories that exist under the source root
    result,                 \* "running", "returned" or the exception raised
    \* build_and_push_docker_image around the call
    caller,                 \* who called build_docker_image
    container_registry,     \* stack.container_registry
    runtime_configuration,  \* runtime_configuration, a dict
    repo_digest,            \* the value build_and_push_docker_image returns
    outcome,                \* how build_and_push_docker_image ended
    \* two calls of build_docker_image running at the same time
    invocations,            \* position and locals of each of the two calls
    images                  \* the local image store: tag -> image

args == <<cfg, docker_parent_image, stack_requirements, entrypoint,
          target_image_name, pipeline_name>>

locals == <<requires_zenml_build, parent_image, requirement_files,
            requirements_file_names, dockerfile, pull_parent_image,
            build_context_root, pending>>

publish == <<caller, container_registry, runtime_configuration, repo_digest,
             outcome>>

concurrent == <<invocations, images>>

vars == <<args, pc, locals, calls, filesystem, result, publish, concurrent>>

\* source_utils.get_source_root_path()
SourceRoot == "/home/user/project"

\* os.path.join(build_context_root, DOCKER_IMAGE_ZENML_CONFIG_DIR)
ConfigPath(root) == root \o "/" \o DOCKER_IMAGE_ZENML_CONFIG_DIR

\* ------------------------------------------------------- external calls
BuildImageCall(image_name, dockerfile_path, dockerfile_lines, context_root, dockerignore, extra_files, pull, options, ok) ==
    [op |-> "build_image", image_name |-> image_name,
     dockerfile_path |-> dockerfile_path, dockerfile_lines |-> dockerfile_lines,
     build_context_root |-> context_root, dockerignore |-> dockerignore,
     extra_files |-> extra_files, pull |-> pull, options |-> options, ok |-> ok]

TagImageCall(image_name, target, ok) ==
    [op |-> "tag_image", image_name |-> image_name, target |-> target, ok |-> ok]

CheckOutputCall(cmd, ok) == [op |-> "check_output", command |-> cmd, ok |-> ok]

ReadFileCall(path, ok) ==
    [op |-> "read_file_contents_as_string", path |-> path, ok |-> ok]

IsLocalImageCall(image_name, ok, is_local) ==
    [op |-> "is_local_image", image_name |-> image_name, ok |-> ok,
     is_local |-> is_local]

CopyActiveConfigurationCall(path, ok) ==
    [op |-> "copy_active_configuration", path |-> path, ok |-> ok]

RmtreeCall(path) == [op |-> "rmtree", path |-> path, ok |-> TRUE]

\* the calls with a given name, in order
RECURSIVE CallsOf(_, _)
CallsOf(log, op) ==
    IF log = <<>> THEN <<>>
    ELSE (IF log[1].op = op THEN <<log[1]>> ELSE <<>>) \o CallsOf(Tail(log), op)

\* ----------------------------------------------- what the outside can do
\* output of the export command: fails, prints nothing, prints packages
ShellResults == {ExtFail, ExtText(""), ExtText("zenml==0.13.2\nnumpy==1.2\n")}

\* content of the user's requirements file: unreadable, empty, packages
ReadResults == {ExtFail, ExtText(""), ExtText("scikit-learn\n")}

NotCalled == ExtText("")

\* the external reads _gather_requirements_files makes for a configuration
ShellResultsFor(c) ==
    IF c.replicate_local_python_environment # None THEN ShellResults
    ELSE {NotCalled}

ReadResultsFor(c, shell) ==
    IF c.requirements.kind = "str"
       /\ (c.replicate_local_python_environment = None \/ shell.ok)
    THEN ReadResults
    ELSE {NotCalled}

GatherCalls(c, shell, read) ==
    (IF c.replicate_local_python_environment # None
     THEN <<CheckOutputCall(
               command(c.replicate_local_python_environment[1]), shell.ok)>>
     ELSE <<>>)
    \o (IF c.requirements.kind = "str"
           /\ (c.replicate_local_python_environment = None \/ shell.ok)
        THEN <<ReadFileCall(c.requirements.path, read.ok)>>
        ELSE <<>>)

\* ------------------------------------------------- build_docker_image
\* a mutation of RequiresZenmlBuild: `is not None` tests instead of truth
\* values (a list or a dict is never None)
RequiresZenmlBuildIsNotNone(c, ep) ==
    \/ c.requirements.kind # "None"
    \/ Len(c.required_integrations) >= 0
    \/ c.replicate_local_python_environment # None
    \/ c.install_stack_requirements
    \/ Len(c.environment) >= 0
    \/ c.copy_files
    \/ c.copy_profile
    \/ ep # None

\* a mutation of RequiresZenmlBuild: copy_profile is not counted
RequiresZenmlBuildWithoutCopyProfile(c, ep) ==
    \/ TruthyRequirements(c.requirements)
    \/ c.required_integrations # <<>>
    \/ c.replicate_local_python_environment # None
    \/ c.install_stack_requirements
    \/ c.environment # <<>>
    \/ c.copy_files
    \/ TruthyOpt(ep)

\* lines 278-289: requires_zenml_build = any([...])
RequiresZenmlBuild(c, ep) ==
    \/ TruthyRequirements(c.requirements)
    \/ c.required_integrations # <<>>
    \/ c.replicate_local_python_environment # None
    \/ c.install_stack_requirements
    \/ c.environment # <<>>
    \/ c.copy_files
    \/ c.copy_profile
    \/ TruthyOpt(ep)

\* a mutation of ResolveParentImage: the component's image comes first
ResolveParentImageComponentFirst(c, component_parent) ==
    IF TruthyOpt(component_parent) THEN component_parent[1]
    ELSE IF TruthyOpt(c.parent_image) THEN c.parent_image[1]
    ELSE DEFAULT_DOCKER_PARENT_IMAGE

\* lines 293-297: parent_image or self.docker_parent_image or the default
ResolveParentImage(c, component_parent) ==
    IF TruthyOpt(c.parent_image) THEN c.parent_image[1]
    ELSE IF TruthyOpt(component_parent) THEN component_parent[1]
    ELSE DEFAULT_DOCKER_PARENT_IMAGE

\* line 310
IntermediateImageName(pipeline) == "zenml-intermediate-build:" \o pipeline

\* lines 275-297, and the choice of the branch of lines 299, 323 and 336
Start ==
    /\ pc = "start"
    /\ requires_zenml_build' = RequiresZenmlBuild(cfg, entrypoint)
    /\ parent_image' = ResolveParentImage(cfg, docker_parent_image)
    /\ pc' = IF TruthyOpt(cfg.dockerfile) THEN "custom_build"
             ELSE IF ~RequiresZenmlBuild(cfg, entrypoint) THEN "no_build"
             ELSE "gather"
    /\ UNCHANGED <<publish, concurrent, args, requirement_files, requirements_file_names, dockerfile,
                   pull_parent_image, build_context_root, pending, calls,
                   filesystem, result>>

\* a mutation of UserImageName: always the intermediate name
UserImageNameAlwaysIntermediate(requires, pipeline, target) ==
    IntermediateImageName(pipeline)

\* lines 306-315: the name the image of the custom Dockerfile is built under
UserImageName(requires, pipeline, target) ==
    IF requires THEN IntermediateImageName(pipeline) ELSE target

\* a mutation of ParentAfterCustomBuild: the parent image is not replaced
ParentAfterCustomBuildKept(requires, pipeline, parent) == parent

\* line 311: the custom image is the parent of the next build
ParentAfterCustomBuild(requires, pipeline, parent) ==
    IF requires THEN IntermediateImageName(pipeline) ELSE parent

\* a mutation of AfterCustomBuild: line 323 is `if`, not `elif`
AfterCustomBuildFallsThrough(requires) ==
    IF requires THEN "gather" ELSE "no_build"

\* lines 323 and 336 after the branch of line 299: `elif` is skipped, and
\* the synthesis follows iff requires_zenml_build
AfterCustomBuild(requires) == IF requires THEN "gather" ELSE "done"

\* lines 299-322: build the image of the custom Dockerfile
BuildCustomDockerfile ==
    /\ pc = "custom_build"
    /\ parent_image' = ParentAfterCustomBuild(requires_zenml_build,
                                              pipeline_name, parent_image)
    /\ \E ok \in BOOLEAN :
          /\ calls' = Append(calls,
                 BuildImageCall(
                     UserImageName(requires_zenml_build, pipeline_name,
                                   target_image_name),
                     cfg.dockerfile, <<>>, cfg.build_context_root, None, <<>>,
                     FALSE, cfg.build_options, ok))
          /\ IF ~ok THEN pc' = "done" /\ result' = "BuildError"
             ELSE /\ pc' = AfterCustomBuild(requires_zenml_build)
                  /\ result' = IF AfterCustomBuild(requires_zenml_build) = "done"
                               THEN "returned" ELSE result
    /\ UNCHANGED <<publish, concurrent, args, requires_zenml_build, requirement_files,
                   requirements_file_names, dockerfile, pull_parent_image,
                   build_context_root, pending, filesystem>>

\* line 324
IsBareDefault(parent) == parent = DEFAULT_DOCKER_PARENT_IMAGE

\* lines 323-330: nothing to build and nothing custom to run
RaiseInsufficientConfiguration ==
    /\ pc = "no_build"
    /\ IsBareDefault(parent_image)
    /\ pc' = "done"
    /\ result' = "ValueError"
    /\ UNCHANGED <<publish, concurrent, args, locals, calls, filesystem>>

\* lines 331-334: the parent image is used as it is
TagParentImage ==
    /\ pc = "no_build"
    /\ ~IsBareDefault(parent_image)
    /\ \E ok \in BOOLEAN :
          /\ calls' = Append(calls,
                             TagImageCall(parent_image, target_image_name, ok))
          /\ result' = IF ok THEN "returned" ELSE "TagError"
    /\ pc' = "done"
    /\ UNCHANGED <<publish, concurrent, args, locals, filesystem>>

\* lines 336-339: gather the requirements files
GatherRequirements ==
    /\ pc = "gather"
    /\ \E shell \in ShellResultsFor(cfg) :
         \E read \in ReadResultsFor(cfg, shell) :
            LET g == gather_requirements_files(cfg, stack_requirements,
                                               shell, read)
            IN  /\ calls' = calls \o GatherCalls(cfg, shell, read)
                /\ IF g.error # NoError
                   THEN /\ pc' = "done"
                        /\ result' = g.error
                        /\ requirement_files' = requirement_files
                   ELSE /\ pc' = "generate"
                        /\ result' = result
                        /\ requirement_files' = g.files
    /\ UNCHANGED <<publish, concurrent, args, requires_zenml_build, parent_image,
                   requirements_file_names, dockerfile, pull_parent_image,
                   build_context_root, pending, filesystem>>

\* line 340: [f[0] for f in requirement_files]
FileNames(files) == [i \in DOMAIN files |-> files[i][1]]

\* lines 340-347: generate the Dockerfile
GenerateDockerfile ==
    /\ pc = "generate"
    /\ requirements_file_names' = FileNames(requirement_files)
    /\ dockerfile' = generate_zenml_pipeline_dockerfile(
                         parent_image, cfg, FileNames(requirement_files),
                         entrypoint)
    /\ pc' = "pull"
    /\ UNCHANGED <<publish, concurrent, args, requires_zenml_build, parent_image, requirement_files,
                   pull_parent_image, build_context_root, pending, calls,
                   filesystem, result>>

\* a mutation of PullParentImage: the `not` of line 359 is dropped
PullParentImageWhenLocal(parent, is_local) ==
    IF parent = DEFAULT_DOCKER_PARENT_IMAGE THEN FALSE ELSE is_local

\* lines 349-359: pull_parent_image
PullParentImage(parent, is_local) ==
    IF parent = DEFAULT_DOCKER_PARENT_IMAGE THEN FALSE ELSE ~is_local

\* lines 349-370: whether to pull the parent, and the build context
DecidePull ==
    /\ pc = "pull"
    /\ \E local \in IF parent_image = DEFAULT_DOCKER_PARENT_IMAGE
                    THEN {"not asked"} ELSE {"local", "remote", "error"} :
          /\ calls' = IF local = "not asked" THEN calls
                      ELSE Append(calls,
                               IsLocalImageCall(parent_image, local # "error",
                                                local = "local"))
          /\ pull_parent_image' = PullParentImage(parent_image, local = "local")
          /\ IF local = "error"
             THEN pc' = "done" /\ result' = "DockerError"
                  /\ build_context_root' = build_context_root
             ELSE pc' = "enter_context" /\ result' = result
                  /\ build_context_root' =
                        IF cfg.copy_files \/ cfg.copy_profile
                        THEN Some(SourceRoot) ELSE None
    /\ UNCHANGED <<publish, concurrent, args, requires_zenml_build, parent_image, requirement_files,
                   requirements_file_names, dockerfile, pending, filesystem>>

\* a mutation of IncludesActiveProfile: copy_files asks for the copy too
IncludesActiveProfileWithFiles(c) == c.copy_profile \/ c.copy_files

\* lines 371-375: _include_active_profile(...) or contextlib.nullcontext()
IncludesActiveProfile(c) == c.copy_profile

\* lines 371-377 and 71-78: enter `with maybe_include_active_profile`
EnterContext ==
    /\ pc = "enter_context"
    /\ IF IncludesActiveProfile(cfg)
       THEN \E copy \in {"copied", "failed", "failed half way"} :
               LET config_path == ConfigPath(build_context_root[1])
               IN  /\ calls' = Append(calls, CopyActiveConfigurationCall(
                                                config_path, copy = "copied"))
                   /\ filesystem' = IF copy = "failed" THEN filesystem
                                    ELSE filesystem \cup {config_path}
                   /\ IF copy = "copied"
                      THEN pc' = "synth_build" /\ pending' = pending
                      ELSE pc' = "exit_context" /\ pending' = "ConfigError"
       ELSE /\ pc' = "synth_build"
            /\ UNCHANGED <<calls, filesystem, pending>>
    /\ UNCHANGED <<publish, concurrent, args, requires_zenml_build, parent_image, requirement_files,
                   requirements_file_names, dockerfile, pull_parent_image,
                   build_context_root, result>>

\* lines 378-385: build the image of the generated Dockerfile
BuildSynthesizedImage ==
    /\ pc = "synth_build"
    /\ \E ok \in BOOLEAN :
          /\ calls' = Append(calls,
                 BuildImageCall(target_image_name, None, dockerfile,
                                build_context_root, cfg.dockerignore,
                                requirement_files, pull_parent_image, <<>>, ok))
          /\ pending' = IF ok THEN pending ELSE "BuildError"
    /\ pc' = "exit_context"
    /\ UNCHANGED <<publish, concurrent, args, requires_zenml_build, parent_image, requirement_files,
                   requirements_file_names, dockerfile, pull_parent_image,
                   build_context_root, filesystem, result>>

\* a mutation of RemovesProfileCopy: rmtree after the yield, not in finally
RemovesProfileCopyOnSuccessOnly(exception) == exception = NoError

\* lines 79-80: `finally: fileio.rmtree(config_path)` runs on every exit
RemovesProfileCopy(exception) == TRUE

\* lines 79-80 and the end of the with block of line 377
ExitContext ==
    /\ pc = "exit_context"
    /\ IF IncludesActiveProfile(cfg) /\ RemovesProfileCopy(pending)
       THEN LET config_path == ConfigPath(build_context_root[1])
            IN  /\ calls' = Append(calls, RmtreeCall(config_path))
                /\ filesystem' = filesystem \ {config_path}
       ELSE UNCHANGED <<calls, filesystem>>
    /\ result' = IF pending = NoError THEN "returned" ELSE pending
    /\ pc' = "done"
    /\ UNCHANGED <<publish, concurrent, args, locals>>

\* ------------------------------------------------------ the call's inputs
UserPackages == {"numpy==1.2", "pandas"}

IntegrationNames == {"aws", "kubeflow", "unknown"}

EnvironmentKeys == {"a", "A", "b"}

EnvironmentValues == {"1", "2"}

\* dicts: sequences of items with pairwise distinct keys
Dicts(n) ==
    {e \in SeqsUpTo(EnvironmentKeys \X EnvironmentValues, n) :
        \A i, j \in DOMAIN e : i # j => e[i][1] # e[j][1]}

\* what stack.requirements() can be
StackRequirements == {{}, {"kfp==1.8.9", "PyYAML"}}

Entrypoints == {None, Some(""), Some("python -m zenml.entrypoint")}

ParentImages == {None, Some("custom/parent:1.0")}

ComponentParentImages ==
    {None, Some("component/parent:2.0"), Some(DEFAULT_DOCKER_PARENT_IMAGE)}

PipelineNames == {"training"}

TargetImageNames == {"registry.example.com/zenml:training"}

\* the configurations build_docker_image is called with
BuildConfigurations ==
    {[DockerConfiguration EXCEPT
         !.parent_image = p, !.dockerfile = d,
         !.replicate_local_python_environment = l, !.requirements = r,
         !.required_integrations = i, !.install_stack_requirements = s,
         !.environment = e, !.copy_files = cf, !.copy_profile = cp] :
       p \in ParentImages,
       d \in {None, Some("Dockerfile.custom")},
       l \in {None, Some("pip_freeze")},
       r \in {ReqNone, ReqPath("requirements.txt"), ReqList(<<>>),
              ReqList(<<"numpy==1.2", "pandas">>)},
       i \in {<<>>, <<"aws">>, <<"unknown">>},
       s \in BOOLEAN,
       e \in {<<>>, <<<<"A", "1">>>>, <<<<"a", "1">>, <<"b", "2">>>>},
       cf \in BOOLEAN,
       cp \in BOOLEAN}

NoLocals ==
    /\ requires_zenml_build = FALSE
    /\ parent_image = ""
    /\ requirement_files = <<>>
    /\ requirements_file_names = <<>>
    /\ dockerfile = <<>>
    /\ pull_parent_image = FALSE
    /\ build_context_root = None
    /\ pending = NoError

NoEffects ==
    /\ calls = <<>>
    /\ filesystem = {}
    /\ result = "running"

\* build_docker_image called on its own, by one caller
CalledAlone ==
    /\ caller = "direct"
    /\ container_registry = None
    /\ runtime_configuration = <<>>
    /\ repo_digest = None
    /\ outcome = "not called"
    /\ invocations = <<>>
    /\ images = <<>>

\* a call of build_docker_image
Init ==
    /\ cfg \in BuildConfigurations
    /\ docker_parent_image \in ComponentParentImages
    /\ stack_requirements \in StackRequirements
    /\ entrypoint \in Entrypoints
    /\ target_image_name \in TargetImageNames
    /\ pipeline_name \in PipelineNames
    /\ pc = "start"
    /\ NoLocals
    /\ NoEffects
    /\ CalledAlone

Next ==
    \/ Start
    \/ BuildCustomDockerfile
    \/ RaiseInsufficientConfiguration
    \/ TagParentImage
    \/ GatherRequirements
    \/ GenerateDockerfile
    \/ DecidePull
    \/ EnterContext
    \/ BuildSynthesizedImage
    \/ ExitContext

Spec == Init /\ [][Next]_vars

\* ------------------------------ _gather_requirements_files called alone
\* the configurations of the requirement sources
GatherConfigurations ==
    {[DockerConfiguration EXCEPT
         !.replicate_local_python_environment = l, !.requirements = r,
         !.required_integrations = i, !.install_stack_requirements = s] :
       l \in {None} \cup {Some(m) : m \in PythonEnvironmentExportMethod},
       r \in {ReqNone, ReqPath("requirements.txt")}
             \cup {ReqList(x) : x \in SeqsUpTo(UserPackages \cup {""}, MaxReqList)},
       i \in SeqsUpTo(IntegrationNames, MaxIntegrations),
       s \in BOOLEAN}

InitGather ==
    /\ cfg \in GatherConfigurations
    /\ docker_parent_image = None
    /\ stack_requirements \in StackRequirements
    /\ entrypoint = None
    /\ target_image_name \in TargetImageNames
    /\ pipeline_name \in PipelineNames
    /\ pc = "call_gather"
    /\ NoLocals
    /\ NoEffects
    /\ CalledAlone

\* PipelineDockerImageBuilder._gather_requirements_files(cfg, stack)
CallGatherRequirementsFiles ==
    /\ pc = "call_gather"
    /\ \E shell \in ShellResultsFor(cfg) :
         \E read \in ReadResultsFor(cfg, shell) :
            LET g == gather_requirements_files(cfg, stack_requirements,
                                               shell, read)
            IN  /\ calls' = calls \o GatherCalls(cfg, shell, read)
                /\ requirement_files' = g.files
                /\ result' = IF g.error = NoError THEN "returned" ELSE g.error
    /\ pc' = "done"
    /\ UNCHANGED <<publish, concurrent, args, requires_zenml_build, parent_image,
                   requirements_file_names, dockerfile, pull_parent_image,
                   build_context_root, pending, filesystem>>

NextGather == CallGatherRequirementsFiles

SpecGather == InitGather /\ [][NextGather]_vars

\* --------------------- _generate_zenml_pipeline_dockerfile called alone
RequirementFileNames ==
    {LOCAL_REQUIREMENTS_FILE, USER_REQUIREMENTS_FILE,
     INTEGRATION_REQUIREMENTS_FILE}

GenerateConfigurations ==
    {[DockerConfiguration EXCEPT
         !.environment = e, !.copy_files = cf, !.copy_profile = cp] :
       e \in Dicts(MaxEnv), cf \in BOOLEAN, cp \in BOOLEAN}

InitGenerate ==
    /\ cfg \in GenerateConfigurations
    /\ docker_parent_image = None
    /\ stack_requirements = {}
    /\ entrypoint \in Entrypoints
    /\ target_image_name \in TargetImageNames
    /\ pipeline_name \in PipelineNames
    /\ pc = "call_generate"
    /\ requires_zenml_build = FALSE
    /\ parent_image \in {DEFAULT_DOCKER_PARENT_IMAGE, "custom/parent:1.0"}
    /\ requirement_files = <<>>
    /\ requirements_file_names \in SeqsUpTo(RequirementFileNames, MaxFiles)
    /\ dockerfile = <<>>
    /\ pull_parent_image = FALSE
    /\ build_context_root = None
    /\ pending = NoError
    /\ NoEffects
    /\ CalledAlone

\* PipelineDockerImageBuilder._generate_zenml_pipeline_dockerfile(
\*     parent_image, cfg, requirements_file_names, entrypoint)
CallGenerateDockerfile ==
    /\ pc = "call_generate"
    /\ dockerfile' = generate_zenml_pipeline_dockerfile(
                         parent_image, cfg, requirements_file_names, entrypoint)
    /\ result' = "returned"
    /\ pc' = "done"
    /\ UNCHANGED <<publish, concurrent, args, requires_zenml_build, parent_image, requirement_files,
                   requirements_file_names, pull_parent_image,
                   build_context_root, pending, calls, filesystem>>

NextGenerate == CallGenerateDockerfile

SpecGenerate == InitGenerate /\ [][NextGenerate]_vars

\* ------------------------------------------ build_and_push_docker_image
PushImageCall(image_name, ok, digest) ==
    [op |-> "push_image", image_name |-> image_name, ok |-> ok,
     digest |-> digest]

\* `key in d` for a dict
HasKey(d, key) == \E i \in DOMAIN d : d[i][1] = key

\* d.get(key)
DictGet(d, key) ==
    IF HasKey(d, key)
    THEN Some(d[CHOOSE i \in DOMAIN d : d[i][1] = key][2])
    ELSE None

\* d[key] = value
DictSet(d, key, value) ==
    IF HasKey(d, key)
    THEN [i \in DOMAIN d |-> IF d[i][1] = key THEN <<key, value>> ELSE d[i]]
    ELSE Append(d, <<key, value>>)

HasContainerRegistryAlways(registry) == TRUE

\* line 418: the truth value of `container_registry`
HasContainerRegistry(registry) == registry # None

TargetImageNameWithoutRegistry(uri, repository, pipeline) ==
    repository \o ":" \o pipeline

\* lines 424-427
TargetImageName(uri, repository, pipeline) ==
    uri \o "/" \o repository \o ":" \o pipeline

\* lines 417-435: the registry is required, the target is named, and
\* build_docker_image is called
RequireContainerRegistry ==
    /\ pc = "build_and_push"
    /\ IF ~HasContainerRegistry(container_registry)
       THEN /\ outcome' = "RuntimeError"
            /\ pc' = "done"
            /\ UNCHANGED target_image_name
       ELSE IF container_registry = None
       THEN \* `.uri` of None, line 425
            /\ outcome' = "AttributeError"
            /\ pc' = "done"
            /\ UNCHANGED target_image_name
       ELSE /\ target_image_name' =
                  TargetImageName(container_registry[1].uri,
                                  cfg.target_repository, pipeline_name)
            /\ pc' = "start"
            /\ UNCHANGED outcome
    /\ UNCHANGED <<cfg, docker_parent_image, stack_requirements, entrypoint,
                   pipeline_name, locals, calls, filesystem, result, caller,
                   container_registry, runtime_configuration, repo_digest,
                   concurrent>>

BuildReturnedOrRaised(build_result) == TRUE

\* lines 429-435: the call of build_docker_image came back without raising
BuildReturned(build_result) == build_result = "returned"

\* lines 429-435: an exception of build_docker_image leaves
\* build_and_push_docker_image as it is
PropagateBuildError ==
    /\ pc = "done"
    /\ caller = "build_and_push_docker_image"
    /\ outcome = "running"
    /\ result # "running"
    /\ ~BuildReturned(result)
    /\ outcome' = result
    /\ UNCHANGED <<args, pc, locals, calls, filesystem, result, caller,
                   container_registry, runtime_configuration, repo_digest,
                   concurrent>>

\* what the registry reports for a pushed image
RepoDigests ==
    {"registry.example.com/zenml@sha256:1111",
     "registry.example.com/zenml@sha256:2222"}

NoDigest == ""

\* lines 437-442: push, record the digest, return it
PushImage ==
    /\ pc = "done"
    /\ caller = "build_and_push_docker_image"
    /\ outcome = "running"
    /\ result # "running"
    /\ BuildReturned(result)
    /\ \/ \E digest \in RepoDigests :
             /\ calls' = Append(calls,
                                PushImageCall(target_image_name, TRUE, digest))
             /\ runtime_configuration' =
                   DictSet(runtime_configuration, "docker_image", digest)
             /\ repo_digest' = Some(digest)
             /\ outcome' = "returned"
       \/ /\ calls' = Append(calls,
                             PushImageCall(target_image_name, FALSE, NoDigest))
          /\ outcome' = "PushError"
          /\ UNCHANGED <<runtime_configuration, repo_digest>>
    /\ UNCHANGED <<args, pc, locals, filesystem, result, caller,
                   container_registry, concurrent>>

ContainerRegistries == {None, Some([uri |-> "registry.example.com"])}

TargetRepositories == {"zenml", "team/models"}

RuntimeConfigurations ==
    {<<<<"run_name", "run-1">>>>,
     <<<<"docker_image", "registry.example.com/zenml@sha256:0000">>,
       <<"run_name", "run-1">>>>}

\* the configurations build_and_push_docker_image is called with
PushConfigurations ==
    {[c EXCEPT !.target_repository = repository] :
        c \in {b \in BuildConfigurations :
                  /\ b.environment = <<>>
                  /\ b.required_integrations \in {<<>>, <<"aws">>}
                  /\ b.requirements \in {ReqNone, ReqPath("requirements.txt")}},
        repository \in TargetRepositories}

\* a call of build_and_push_docker_image
InitPush ==
    /\ cfg \in PushConfigurations
    /\ docker_parent_image \in ComponentParentImages
    /\ stack_requirements = {}
    /\ entrypoint \in {None, Some("python -m zenml.entrypoint")}
    /\ target_image_name = ""
    /\ pipeline_name \in PipelineNames
    /\ pc = "build_and_push"
    /\ NoLocals
    /\ NoEffects
    /\ caller = "build_and_push_docker_image"
    /\ container_registry \in ContainerRegistries
    /\ runtime_configuration \in RuntimeConfigurations
    /\ repo_digest = None
    /\ outcome = "running"
    /\ invocations = <<>>
    /\ images = <<>>

NextPush ==
    \/ RequireContainerRegistry
    \/ Start
    \/ BuildCustomDockerfile
    \/ RaiseInsufficientConfiguration
    \/ TagParentImage
    \/ GatherRequirements
    \/ GenerateDockerfile
    \/ DecidePull
    \/ EnterContext
    \/ BuildSynthesizedImage
    \/ ExitContext
    \/ PropagateBuildError
    \/ PushImage

SpecPush == InitPush /\ [][NextPush]_vars

\* ------------------------- two calls of build_docker_image at one time
\* The two calls run in one process (two threads of the orchestrator): they
\* share the source root on disk and the image store of the Docker daemon.
Invocations == {1, 2}

\* an image of the local store: who built it, and from which Dockerfile
BuiltImage(invocation, built_from) ==
    [built_by |-> invocation, built_from |-> built_from]

NoImage == BuiltImage(0, "")

\* an image that is not in the local store comes from its registry
RegistryImage(name) == BuiltImage(0, name)

ConcurrentTargetImageNames ==
    <<"registry.example.com/zenml:training",
      "registry.example.com/team/models:training">>

ConcurrentPipelineNames == {"training", "evaluation"}

ConcurrentDockerfiles == <<"a/Dockerfile", "b/Dockerfile">>

ImageTags ==
    {IntermediateImageName(name) : name \in ConcurrentPipelineNames}
    \cup Range(ConcurrentTargetImageNames)

ConcurrentConfigurations(invocation) ==
    {[DockerConfiguration EXCEPT !.dockerfile = d, !.copy_files = cf,
                                 !.copy_profile = cp,
                                 !.install_stack_requirements = FALSE] :
        d \in {None, Some(ConcurrentDockerfiles[invocation])},
        cf \in BOOLEAN, cp \in BOOLEAN}

\* the arguments, position and locals of one of the two calls
NewInvocation(c, target, pipeline) ==
    [cfg |-> c, target_image_name |-> target, pipeline_name |-> pipeline,
     pc |-> "start", requires_zenml_build |-> FALSE, parent_image |-> "",
     dockerfile |-> <<>>, pull_parent_image |-> FALSE, pending |-> NoError,
     result |-> "running",
     first_stage_image |-> NoImage,   \* what its build of line 317 produced
     parent_used |-> NoImage]         \* what its build of line 378 started from

\* the variables of the single call, which stand still meanwhile
sequential == <<args, pc, locals, calls, result, publish>>

\* the image the daemon finds under a name
ResolveImage(store, name) ==
    IF name \in DOMAIN store /\ store[name] # NoImage THEN store[name]
    ELSE RegistryImage(name)

\* docker_utils.is_local_image(name)
IsLocalImage(store, name) == name \in DOMAIN store /\ store[name] # NoImage

\* lines 275-297 and the branch taken
ConcurrentStart(p) ==
    LET v == invocations[p]
        requires == RequiresZenmlBuild(v.cfg, None)
    IN  /\ v.pc = "start"
        /\ invocations' = [invocations EXCEPT
              ![p].requires_zenml_build = requires,
              ![p].parent_image = ResolveParentImage(v.cfg, None),
              ![p].pc = IF TruthyOpt(v.cfg.dockerfile) THEN "custom_build"
                        ELSE IF ~requires THEN "no_build"
                        ELSE "gather"]
        /\ UNCHANGED <<sequential, filesystem, images>>

\* lines 299-322: the build of the custom Dockerfile puts an image under
\* the name it is given
ConcurrentBuildCustomDockerfile(p) ==
    LET v == invocations[p]
        name == UserImageName(v.requires_zenml_build, v.pipeline_name,
                              v.target_image_name)
        built == BuiltImage(p, v.cfg.dockerfile[1])
        next == AfterCustomBuild(v.requires_zenml_build)
    IN  /\ v.pc = "custom_build"
        /\ \E ok \in BOOLEAN :
              IF ok
              THEN /\ images' = [images EXCEPT ![name] = built]
                   /\ invocations' = [invocations EXCEPT
                         ![p].parent_image =
                             ParentAfterCustomBuild(v.requires_zenml_build,
                                                    v.pipeline_name,
                                                    v.parent_image),
                         ![p].first_stage_image = built,
                         ![p].pc = next,
                         ![p].result = IF next = "done" THEN "returned"
                                       ELSE v.result]
              ELSE /\ images' = images
                   /\ invocations' = [invocations EXCEPT
                         ![p].pc = "done", ![p].result = "BuildError"]
        /\ UNCHANGED <<sequential, filesystem>>

\* lines 323-334: raise, or tag the parent image
ConcurrentTagOrRaise(p) ==
    LET v == invocations[p]
    IN  /\ v.pc = "no_build"
        /\ IF IsBareDefault(v.parent_image)
           THEN /\ invocations' = [invocations EXCEPT
                      ![p].pc = "done", ![p].result = "ValueError"]
                /\ images' = images
           ELSE /\ invocations' = [invocations EXCEPT
                      ![p].pc = "done", ![p].result = "returned"]
                /\ images' = [images EXCEPT ![v.target_image_name] =
                                  ResolveImage(images, v.parent_image)]
        /\ UNCHANGED <<sequential, filesystem>>

\* lines 336-347: the requirements files and the Dockerfile
ConcurrentGenerateDockerfile(p) ==
    LET v == invocations[p]
        g == gather_requirements_files(v.cfg, {}, NotCalled, NotCalled)
    IN  /\ v.pc = "gather"
        /\ invocations' = [invocations EXCEPT
              ![p].dockerfile =
                  generate_zenml_pipeline_dockerfile(
                      v.parent_image, v.cfg, FileNames(g.files), None),
              ![p].pc = "pull"]
        /\ UNCHANGED <<sequential, filesystem, images>>

\* lines 349-359
ConcurrentDecidePull(p) ==
    LET v == invocations[p]
    IN  /\ v.pc = "pull"
        /\ invocations' = [invocations EXCEPT
              ![p].pull_parent_image =
                  PullParentImage(v.parent_image,
                                  IsLocalImage(images, v.parent_image)),
              ![p].pc = "enter_context"]
        /\ UNCHANGED <<sequential, filesystem, images>>

\* lines 371-377 and 71-78: the profile is copied under the source root
ConcurrentEnterContext(p) ==
    LET v == invocations[p]
    IN  /\ v.pc = "enter_context"
        /\ IF IncludesActiveProfile(v.cfg)
           THEN \E copied \in BOOLEAN :
                   IF copied
                   THEN /\ filesystem' = filesystem \cup {ConfigPath(SourceRoot)}
                        /\ invocations' = [invocations EXCEPT
                              ![p].pc = "synth_build"]
                   ELSE /\ filesystem' = filesystem
                        /\ invocations' = [invocations EXCEPT
                              ![p].pc = "exit_context",
                              ![p].pending = "ConfigError"]
           ELSE /\ filesystem' = filesystem
                /\ invocations' = [invocations EXCEPT ![p].pc = "synth_build"]
        /\ UNCHANGED <<sequential, images>>

\* line 378: docker_utils.build_image is entered; the daemon starts from
\* the image it finds under the name of the FROM line
ConcurrentBeginBuild(p) ==
    LET v == invocations[p]
    IN  /\ v.pc = "synth_build"
        /\ invocations' = [invocations EXCEPT
              ![p].parent_used =
                  IF v.pull_parent_image THEN RegistryImage(v.parent_image)
                  ELSE ResolveImage(images, v.parent_image),
              ![p].pc = "in_build"]
        /\ UNCHANGED <<sequential, filesystem, images>>

\* lines 378-385: docker_utils.build_image returns or raises
ConcurrentEndBuild(p) ==
    LET v == invocations[p]
    IN  /\ v.pc = "in_build"
        /\ \E ok \in BOOLEAN :
              /\ images' = IF ok
                           THEN [images EXCEPT ![v.target_image_name] =
                                     BuiltImage(p, "generated")]
                           ELSE images
              /\ invocations' = [invocations EXCEPT
                    ![p].pending = IF ok THEN v.pending ELSE "BuildError",
                    ![p].pc = "exit_context"]
        /\ UNCHANGED <<sequential, filesystem>>

\* lines 79-80: finally: fileio.rmtree(config_path)
ConcurrentExitContext(p) ==
    LET v == invocations[p]
    IN  /\ v.pc = "exit_context"
        /\ filesystem' =
              IF IncludesActiveProfile(v.cfg) /\ RemovesProfileCopy(v.pending)
              THEN filesystem \ {ConfigPath(SourceRoot)}
              ELSE filesystem
        /\ invocations' = [invocations EXCEPT
              ![p].result = IF v.pending = NoError THEN "returned"
                            ELSE v.pending,
              ![p].pc = "done"]
        /\ UNCHANGED <<sequential, images>>

\* two calls with different target names, from the same source root
InitConcurrent ==
    /\ cfg = DockerConfiguration
    /\ docker_parent_image = None
    /\ stack_requirements = {}
    /\ entrypoint = None
    /\ target_image_name = ""
    /\ pipeline_name = ""
    /\ pc = "concurrent"
    /\ NoLocals
    /\ NoEffects
    /\ caller = "direct"
    /\ container_registry = None
    /\ runtime_configuration = <<>>
    /\ repo_digest = None
    /\ outcome = "not called"
    /\ \E c1 \in ConcurrentConfigurations(1), c2 \in ConcurrentConfigurations(2),
          n1 \in ConcurrentPipelineNames, n2 \in ConcurrentPipelineNames :
          invocations =
             <<NewInvocation(c1, ConcurrentTargetImageNames[1], n1),
               NewInvocation(c2, ConcurrentTargetImageNames[2], n2)>>
    /\ images = [name \in ImageTags |-> NoImage]

NextConcurrent ==
    \/ \E p \in Invocations : ConcurrentStart(p)
    \/ \E p \in Invocations : ConcurrentBuildCustomDockerfile(p)
    \/ \E p \in Invocations : ConcurrentTagOrRaise(p)
    \/ \E p \in Invocations : ConcurrentGenerateDockerfile(p)
    \/ \E p \in Invocations : ConcurrentDecidePull(p)
    \/ \E p \in Invocations : ConcurrentEnterContext(p)
    \/ \E p \in Invocations : ConcurrentBeginBuild(p)
    \/ \E p \in Invocations : ConcurrentEndBuild(p)
    \/ \E p \in Invocations : ConcurrentExitContext(p)

SpecConcurrent == InitConcurrent /\ [][NextConcurrent]_vars

\* ================================================================ claims
BuildCalls == CallsOf(calls, "build_image")

TagCalls == CallsOf(calls, "tag_image")

\* the fields the insufficient-configuration property lists are all unset,
\* false or empty, and the configuration names no parent image
ListedOptionsUnset ==
    /\ ~TruthyOpt(cfg.dockerfile)
    /\ ~TruthyRequirements(cfg.requirements)
    /\ cfg.required_integrations = <<>>
    /\ cfg.environment = <<>>
    /\ ~cfg.copy_files
    /\ ~cfg.copy_profile
    /\ ~TruthyOpt(entrypoint)
    /\ cfg.parent_image = None

\* C1 as stated: with dockerfile, requirements, required_integrations,
\* environment, copy_files, copy_profile and entrypoint unset/false/empty and
\* no custom parent_image, build_docker_image ends with the
\* insufficient-configuration error whatever the other fields are.
C1_AsStated ==
    (pc = "done" /\ ListedOptionsUnset) => result = "ValueError"

\* C1 amended: if moreover replicate_local_python_environment is unset,
\* install_stack_requirements is false and the builder has no
\* docker_parent_image of its own, build_docker_image ends with the
\* insufficient-configuration error and has made no external call.
C1_InsufficientConfiguration ==
    (/\ ListedOptionsUnset
     /\ cfg.replicate_local_python_environment = None
     /\ ~cfg.install_stack_requirements
     /\ docker_parent_image = None)
    => /\ calls = <<>>
       /\ pc = "done" => result = "ValueError"
       /\ pc \in {"start", "no_build", "done"}

C1_Witness ==
    /\ ListedOptionsUnset
    /\ cfg.replicate_local_python_environment = None
    /\ ~cfg.install_stack_requirements
    /\ docker_parent_image = None
    /\ pc = "done"
    /\ result = "ValueError"

\* C2 as stated: a configuration with only dockerfile set (every other field
\* at its default, no entrypoint) leads to exactly one build call, for the
\* custom Dockerfile under target_image_name.
C2_AsStated ==
    (/\ cfg = [DockerConfiguration EXCEPT !.dockerfile = Some("Dockerfile.custom")]
     /\ entrypoint = None
     /\ result = "returned")
    => /\ Len(BuildCalls) = 1
       /\ BuildCalls[1].image_name = target_image_name

\* nothing but the Dockerfile asks for an image: the eight inputs of
\* requires_zenml_build are all unset, false or empty
OnlyDockerfile ==
    /\ TruthyOpt(cfg.dockerfile)
    /\ ~TruthyRequirements(cfg.requirements)
    /\ cfg.required_integrations = <<>>
    /\ cfg.replicate_local_python_environment = None
    /\ ~cfg.install_stack_requirements
    /\ cfg.environment = <<>>
    /\ ~cfg.copy_files
    /\ ~cfg.copy_profile
    /\ ~TruthyOpt(entrypoint)

\* C2 amended: with dockerfile set and install_stack_requirements, copy_files
\* and copy_profile switched off (and nothing else set), the only external
\* call of build_docker_image is one build of the custom Dockerfile under
\* target_image_name: no second build, no tag, no requirements collation.
C2_SingleCustomBuild ==
    OnlyDockerfile
    => /\ Len(calls) <= 1
       /\ requirement_files = <<>>
       /\ dockerfile = <<>>
       /\ pc \in {"start", "custom_build", "done"}
       /\ pc = "done" =>
             /\ Len(calls) = 1
             /\ calls[1].op = "build_image"
             /\ calls[1].image_name = target_image_name
             /\ calls[1].dockerfile_path = cfg.dockerfile
             /\ calls[1].dockerfile_lines = <<>>
             /\ calls[1].build_context_root = cfg.build_context_root
             /\ result = (IF calls[1].ok THEN "returned" ELSE "BuildError")

C2_Witness ==
    /\ OnlyDockerfile
    /\ result = "returned"
    /\ Len(BuildCalls) = 1

\* the ENV lines the generated Dockerfile holds for the environment's items
EnvironmentLinePositions(lines) ==
    {i \in DOMAIN lines :
        \E j \in DOMAIN cfg.environment :
            lines[i] = "ENV " \o upper(cfg.environment[j][1]) \o "="
                       \o cfg.environment[j][2]}

\* C3: with dockerfile set and requires_zenml_build true, the build calls are
\* first the custom Dockerfile under zenml-intermediate-build:{pipeline_name},
\* then, only once that call has returned, the generated Dockerfile under
\* target_image_name; its FROM line names the intermediate image, not the
\* configured parent image, and it holds one ENV line per environment item
\* (ENV A=1 for {"A": "1"}).  A call that returns has made both.
C3_TwoStageBuild ==
    (TruthyOpt(cfg.dockerfile) /\ requires_zenml_build)
    => /\ Len(BuildCalls) <= 2
       /\ TagCalls = <<>>
       /\ Len(BuildCalls) >= 1 =>
             /\ BuildCalls[1].image_name
                  = "zenml-intermediate-build:" \o pipeline_name
             /\ BuildCalls[1].dockerfile_path = cfg.dockerfile
             /\ BuildCalls[1].dockerfile_lines = <<>>
       /\ Len(BuildCalls) = 2 =>
             LET second == BuildCalls[2]
             IN  /\ BuildCalls[1].ok
                 /\ second.image_name = target_image_name
                 /\ second.dockerfile_path = None
                 /\ second.dockerfile_lines[1]
                      = "FROM zenml-intermediate-build:" \o pipeline_name
                 /\ TruthyOpt(cfg.parent_image) =>
                       second.dockerfile_lines[1] # "FROM " \o cfg.parent_image[1]
                 /\ Cardinality(EnvironmentLinePositions(second.dockerfile_lines))
                      = Len(cfg.environment)
                 /\ cfg.environment = <<<<"A", "1">>>> =>
                       \E i \in DOMAIN second.dockerfile_lines :
                           second.dockerfile_lines[i] = "ENV A=1"
       /\ result = "returned" => Len(BuildCalls) = 2

C3_Witness ==
    /\ TruthyOpt(cfg.dockerfile)
    /\ TruthyOpt(cfg.parent_image)
    /\ cfg.environment = <<<<"A", "1">>>>
    /\ result = "returned"
    /\ Len(BuildCalls) = 2

\* C4: once a call of build_docker_image with copy_profile true has ended,
\* normally or with an exception raised at any point, the profile copy
\* <source root>/.zenconfig does not exist.
C4_ProfileCopyRemoved ==
    (cfg.copy_profile /\ pc = "done")
    => ConfigPath(SourceRoot) \notin filesystem

\* a call whose profile copy was made and whose image build then failed
C4_Witness ==
    /\ cfg.copy_profile
    /\ pc = "done"
    /\ result = "BuildError"
    /\ \E i \in DOMAIN calls :
          calls[i].op = "copy_active_configuration" /\ calls[i].ok

\* ------------------------------------------- the Requirements Collator
\* the slot of a requirements file: local environment, user, integrations
Slot(name) ==
    CASE name = LOCAL_REQUIREMENTS_FILE -> 1
      [] name = USER_REQUIREMENTS_FILE -> 2
      [] name = INTEGRATION_REQUIREMENTS_FILE -> 3
      [] OTHER -> 0

\* the requirement strings of the registered required integrations and, if
\* install_stack_requirements is set, of the stack
RequiredUnion ==
    {r \in Range(CodePointOrder) \cup stack_requirements :
        \/ \E i \in DOMAIN cfg.required_integrations :
              \E g \in Integrations :
                 /\ g.NAME = cfg.required_integrations[i]
                 /\ r \in Range(g.REQUIREMENTS)
        \/ cfg.install_stack_requirements /\ r \in stack_requirements}

\* C5: the list _gather_requirements_files returns is a subsequence of
\* [local environment file, user file, integration file]: at most three
\* files, each name at most once, in that order; when only the integration
\* requirements are present it is the integration file alone.
C5_FixedOrder ==
    (pc = "done" /\ result = "returned")
    => LET names == FileNames(requirement_files)
       IN  /\ Len(names) <= 3
           /\ \A i \in DOMAIN names : Slot(names[i]) \in 1..3
           /\ \A i, j \in DOMAIN names : i < j => Slot(names[i]) < Slot(names[j])
           /\ (/\ cfg.replicate_local_python_environment = None
               /\ cfg.requirements.kind = "None"
               /\ RequiredUnion # {})
              => names = <<INTEGRATION_REQUIREMENTS_FILE>>

C5_Witness ==
    /\ pc = "done"
    /\ result = "returned"
    /\ FileNames(requirement_files)
         = <<LOCAL_REQUIREMENTS_FILE, USER_REQUIREMENTS_FILE,
             INTEGRATION_REQUIREMENTS_FILE>>

\* the integration requirements files among the gathered files
IntegrationFiles ==
    {i \in DOMAIN requirement_files :
        requirement_files[i][1] = INTEGRATION_REQUIREMENTS_FILE}

\* C6: the integration requirements file holds the requirement strings of the
\* required integrations and (only with install_stack_requirements) of the
\* stack, each once, in ascending code point order, one per line; it is there
\* if and only if there is such a string, and it is the same for every order
\* and repetition of required_integrations.
C6_SortedUnion ==
    (pc = "done" /\ result = "returned")
    => /\ (IntegrationFiles # {}) <=> (RequiredUnion # {})
       /\ \A i \in IntegrationFiles :
             \E s \in [1..Cardinality(RequiredUnion) -> RequiredUnion] :
                /\ \A a, b \in DOMAIN s : a < b => StrLess(s[a], s[b])
                /\ requirement_files[i][2] = Join(s, "\n")
       /\ \A other \in SeqsUpTo(IntegrationNames, MaxIntegrations) :
             Range(other) = Range(cfg.required_integrations)
             => \A i \in IntegrationFiles :
                   GatherIntegrations(
                       [cfg EXCEPT !.required_integrations = other],
                       stack_requirements).files
                     = <<requirement_files[i]>>

\* both integrations, kubeflow first, and a stack that asks for kfp as well
C6_Witness ==
    /\ pc = "done"
    /\ result = "returned"
    /\ cfg.required_integrations = <<"kubeflow", "aws">>
    /\ cfg.install_stack_requirements
    /\ stack_requirements = {"kfp==1.8.9", "PyYAML"}
    /\ \E i \in IntegrationFiles :
          requirement_files[i][2]
            = "PyYAML\nboto3==1.21.0\nkfp==1.8.9\nsagemaker==2.82.2"

\* C7 as stated: no requirements file the collator returns has empty content
\* (an empty source is skipped).
C7_NoEmptyFile ==
    (pc = "done" /\ result = "returned")
    => \A i \in DOMAIN requirement_files : requirement_files[i][2] # ""

\* ------------------------------------------ the inline list example
InlineListOnly ==
    /\ cfg.requirements.kind = "List"
    /\ cfg.copy_files
    /\ cfg.required_integrations = <<>>
    /\ ~TruthyOpt(cfg.dockerfile)

\* C8 as stated: requirements an inline list, copy_files true, no required
\* integrations, no dockerfile: exactly one requirements file is gathered,
\* holding the list joined by newlines.
C8_AsStated ==
    (/\ InlineListOnly
     /\ cfg.requirements.items = <<"numpy==1.2", "pandas">>
     /\ result = "returned")
    => requirement_files = <<<<USER_REQUIREMENTS_FILE, "numpy==1.2\npandas">>>>

PipInstallPositions(lines) ==
    {i \in DOMAIN lines :
        \E n \in RequirementFileNames :
            lines[i] = "RUN pip install --no-cache-dir -r " \o n}

\* C8 amended: if moreover the list is not empty, no local environment is
\* replicated and no stack requirements are installed
\* (install_stack_requirements false or stack.requirements() empty), the one
\* file gathered is the user requirements file with the list joined by
\* newlines, and the Dockerfile holds, in order, FROM, WORKDIR, the COPY and
\* RUN pip install of that file, COPY . . and the chmod RUN.
C8_InlineList ==
    (/\ InlineListOnly
     /\ cfg.requirements.items # <<>>
     /\ cfg.replicate_local_python_environment = None
     /\ (~cfg.install_stack_requirements \/ stack_requirements = {})
     /\ pc \notin {"start", "gather"})
    => /\ Len(requirement_files) = 1
       /\ requirement_files[1][1] = ".zenml_user_requirements"
       /\ requirement_files[1][2] = Join(cfg.requirements.items, "\n")
       /\ cfg.requirements.items = <<"numpy==1.2", "pandas">>
             => requirement_files[1][2] = "numpy==1.2\npandas"
       /\ pc # "generate" =>
             /\ dockerfile[1] = "FROM " \o parent_image
             /\ dockerfile[2] = "WORKDIR /app"
             /\ Cardinality(PipInstallPositions(dockerfile)) = 1
             /\ \E k \in DOMAIN dockerfile :
                   /\ k > 2
                   /\ k + 3 \in DOMAIN dockerfile
                   /\ dockerfile[k] = "COPY .zenml_user_requirements ."
                   /\ dockerfile[k + 1]
                        = "RUN pip install --no-cache-dir -r .zenml_user_requirements"
                   /\ dockerfile[k + 2] = "COPY . ."
                   /\ dockerfile[k + 3] = "RUN chmod -R a+rw ."

C8_Witness ==
    /\ InlineListOnly
    /\ cfg.requirements.items = <<"numpy==1.2", "pandas">>
    /\ cfg.replicate_local_python_environment = None
    /\ cfg.install_stack_requirements
    /\ stack_requirements = {}
    /\ result = "returned"
    /\ Len(BuildCalls) = 1
    /\ BuildCalls[1].extra_files
         = <<<<".zenml_user_requirements", "numpy==1.2\npandas">>>>

\* ------------------------------------------- the Dockerfile Synthesizer
\* entrypoints that are provided (a string that is not empty)
ProvidedEntrypoints == {e \in Entrypoints : TruthyOpt(e)}

\* C9: going from no entrypoint to a provided one changes the generated
\* Dockerfile by one more line at its end, the ENTRYPOINT line, and nothing
\* else: the Dockerfile generated here is, with an entrypoint, the one
\* generated without it plus that line, and, without an entrypoint, the one
\* any provided entrypoint extends by that line.
C9_EntrypointAppended ==
    pc = "done"
    => IF TruthyOpt(entrypoint)
       THEN /\ dockerfile
                 = Append(generate_zenml_pipeline_dockerfile(
                              parent_image, cfg, requirements_file_names, None),
                          "ENTRYPOINT " \o entrypoint[1])
            /\ \A i \in 1..(Len(dockerfile) - 1) :
                  dockerfile[i] # "ENTRYPOINT " \o entrypoint[1]
       ELSE \A e \in ProvidedEntrypoints :
               /\ generate_zenml_pipeline_dockerfile(
                      parent_image, cfg, requirements_file_names, e)
                    = Append(dockerfile, "ENTRYPOINT " \o e[1])
               /\ \A i \in DOMAIN dockerfile :
                     dockerfile[i] # "ENTRYPOINT " \o e[1]

C9_Witness ==
    /\ pc = "done"
    /\ TruthyOpt(entrypoint)
    /\ cfg.environment # <<>>
    /\ requirements_file_names # <<>>
    /\ dockerfile[Len(dockerfile)] = "ENTRYPOINT python -m zenml.entrypoint"

\* C10: the generated Dockerfile is, line by line: FROM parent_image;
\* WORKDIR /app; the ENV of the profile path iff copy_profile; one ENV per
\* environment item, in the dict's order, key upper-cased, none merged; per
\* requirements file name, in the given order and with repetitions kept, its
\* COPY and then its RUN pip install; COPY . . if copy_files, else the COPY of
\* .zenconfig if copy_profile, else neither; RUN chmod; the ENTRYPOINT iff an
\* entrypoint is provided.
C10_Layout ==
    pc = "done"
    => LET out == dockerfile
           env == cfg.environment
           files == requirements_file_names
           p == IF cfg.copy_profile THEN 1 ELSE 0
           c == IF cfg.copy_files \/ cfg.copy_profile THEN 1 ELSE 0
           t == IF entrypoint # None /\ entrypoint # Some("") THEN 1 ELSE 0
           base == 2 + p + Len(env) + 2 * Len(files)
       IN  /\ Len(out) = base + c + 1 + t
           /\ out[1] = "FROM " \o parent_image
           /\ out[2] = "WORKDIR /app"
           /\ cfg.copy_profile =>
                 out[3] = "ENV " \o ENV_ZENML_CONFIG_PATH \o "=/app/.zenconfig"
           /\ \A i \in DOMAIN env :
                 /\ out[2 + p + i] = "ENV " \o upper(env[i][1]) \o "=" \o env[i][2]
                 /\ env[i][1] \in {"a", "A"} =>
                       out[2 + p + i] = "ENV A=" \o env[i][2]
           /\ \A j \in DOMAIN files :
                 /\ out[2 + p + Len(env) + 2 * j - 1] = "COPY " \o files[j] \o " ."
                 /\ out[2 + p + Len(env) + 2 * j]
                      = "RUN pip install --no-cache-dir -r " \o files[j]
           /\ cfg.copy_files => out[base + 1] = "COPY . ."
           /\ (~cfg.copy_files /\ cfg.copy_profile) =>
                 out[base + 1] = "COPY .zenconfig ."
           /\ out[base + c + 1] = "RUN chmod -R a+rw ."
           /\ t = 1 => out[base + c + 2] = "ENTRYPOINT " \o entrypoint[1]

\* keys that coincide once upper-cased, a file name given twice, both flags
C10_Witness ==
    /\ pc = "done"
    /\ cfg.copy_files
    /\ cfg.copy_profile
    /\ cfg.environment = <<<<"a", "1">>, <<"A", "2">>>>
    /\ requirements_file_names
         = <<USER_REQUIREMENTS_FILE, USER_REQUIREMENTS_FILE>>
    /\ TruthyOpt(entrypoint)
    /\ Len(dockerfile) = 12

PushCalls == CallsOf(calls, "push_image")

\* the run record is as the caller passed it
RunRecordUntouched == runtime_configuration \in RuntimeConfigurations

\* C11: when the stack has no container registry,
\* build_and_push_docker_image raises the no-container-registry error
\* (RuntimeError) as its first step: no external call of any kind was made
\* (no shell command, no build, no tag, no push), build_docker_image was
\* not entered, nothing was returned and the run record is unchanged.
C11_NoContainerRegistry ==
    (caller = "build_and_push_docker_image" /\ container_registry = None)
    => /\ calls = <<>>
       /\ filesystem = {}
       /\ result = "running"
       /\ repo_digest = None
       /\ RunRecordUntouched
       /\ outcome \in {"running", "RuntimeError"}
       /\ (pc # "build_and_push" => pc = "done" /\ outcome = "RuntimeError")

C11_Witness ==
    /\ caller = "build_and_push_docker_image"
    /\ container_registry = None
    /\ HasKey(runtime_configuration, "docker_image")
    /\ outcome = "RuntimeError"

\* the calls that leave an image under a name: a build of it, a tag to it
ProducesImage(call, name) ==
    \/ call.op = "build_image" /\ call.image_name = name /\ call.ok
    \/ call.op = "tag_image" /\ call.target = name /\ call.ok

\* C12: push_image is only ever called after build_docker_image returned
\* without error, it is the last external call, and it is made once; when
\* build_and_push_docker_image returns, the target name is
\* {registry uri}/{target_repository}:{pipeline_name}, the one push was of
\* that name, an image was built or tagged under that name before it, and
\* the value returned is the digest push_image reported and the value
\* stored in the run record under "docker_image".
C12_PushAfterBuild ==
    /\ PushCalls # <<>>
       => /\ Len(PushCalls) = 1
          /\ calls[Len(calls)].op = "push_image"
          /\ result = "returned"
          /\ PushCalls[1].image_name = target_image_name
    /\ outcome = "returned"
       => /\ target_image_name =
                container_registry[1].uri \o "/" \o cfg.target_repository
                \o ":" \o pipeline_name
          /\ Len(PushCalls) = 1
          /\ PushCalls[1].ok
          /\ \E i \in 1..(Len(calls) - 1) :
                ProducesImage(calls[i], target_image_name)
          /\ repo_digest = Some(PushCalls[1].digest)
          /\ DictGet(runtime_configuration, "docker_image") = repo_digest

C12_Witness ==
    /\ outcome = "returned"
    /\ cfg.target_repository = "team/models"
    /\ target_image_name = "registry.example.com/team/models:training"
    /\ Len(BuildCalls) = 2
    /\ repo_digest = Some("registry.example.com/zenml@sha256:2222")
    /\ runtime_configuration[1] =
          <<"docker_image", "registry.example.com/zenml@sha256:2222">>

\* no image name is built twice
NoBuildRepeated ==
    \A i, j \in DOMAIN BuildCalls :
       BuildCalls[i].image_name = BuildCalls[j].image_name => i = j

\* C13: build_and_push_docker_image ends in one of two ways.  It returns,
\* and then an image was built or tagged under target_image_name and that
\* name was pushed successfully.  Or it raises, and then the error is the
\* one build_docker_image or push_image raised, nothing was pushed if the
\* build failed, nothing was returned and the run record was not written.
\* Nothing is retried: at most one push, at most one tag, and no image name
\* is built twice.
C13_NoPartialSuccess ==
    /\ Len(PushCalls) <= 1
    /\ Len(TagCalls) <= 1
    /\ NoBuildRepeated
    /\ outcome = "returned"
       => /\ \E i \in DOMAIN calls : ProducesImage(calls[i], target_image_name)
          /\ \E i \in DOMAIN PushCalls :
                PushCalls[i].image_name = target_image_name /\ PushCalls[i].ok
    /\ (caller = "build_and_push_docker_image" /\ outcome # "returned")
       => /\ RunRecordUntouched
          /\ repo_digest = None
          /\ (result # "returned" => PushCalls = <<>>)
          /\ (outcome # "running"
              => \/ container_registry = None /\ outcome = "RuntimeError"
                 \/ result # "returned" /\ outcome = result
                 \/ /\ result = "returned"
                    /\ outcome = "PushError"
                    /\ ~PushCalls[1].ok)

C13_Witness ==
    /\ outcome = "BuildError"
    /\ Len(BuildCalls) = 2
    /\ BuildCalls[1].ok
    /\ ~BuildCalls[2].ok
    /\ HasKey(runtime_configuration, "docker_image")

\* the export command was run and exited non-zero
ExportFailedAt(i) ==
    /\ calls[i].op = "check_output"
    /\ ~calls[i].ok

\* C15: when replicate_local_python_environment is set and the export
\* command exits non-zero, build_docker_image raises the environment-export
\* error (RuntimeError): the failed command is the last external call of
\* the invocation (no requirements file is read, no build or tag call, no
\* locality check and no profile copy follow it), no requirements file was
\* gathered, and no call of the invocation left an image under
\* target_image_name.
C15_ExportFailureAborts ==
    \A i \in DOMAIN calls :
       ExportFailedAt(i)
       => /\ cfg.replicate_local_python_environment # None
          /\ i = Len(calls)
          /\ pc = "done"
          /\ result = "RuntimeError"
          /\ requirement_files = <<>>
          /\ filesystem = {}
          /\ \A j \in DOMAIN calls : ~ProducesImage(calls[j], target_image_name)

C15_Witness ==
    /\ \E i \in DOMAIN calls : ExportFailedAt(i)
    /\ cfg.requirements = ReqPath("requirements.txt")
    /\ cfg.required_integrations = <<"aws">>
    /\ Len(BuildCalls) = 1
    /\ result = "RuntimeError"

\* at least one of the eight conditions holds for the call
AnyOfEight ==
    \/ cfg.requirements.kind = "str" /\ cfg.requirements.path # ""
    \/ cfg.requirements.kind = "List" /\ Len(cfg.requirements.items) > 0
    \/ Len(cfg.required_integrations) > 0
    \/ cfg.replicate_local_python_environment # None
    \/ cfg.install_stack_requirements = TRUE
    \/ Len(cfg.environment) > 0
    \/ cfg.copy_files = TRUE
    \/ cfg.copy_profile = TRUE
    \/ (entrypoint # None /\ entrypoint[1] # "")

SynthesisPositions ==
    {"gather", "generate", "pull", "enter_context", "synth_build",
     "exit_context"}

\* C16: once computed, requires_zenml_build is true exactly when at least
\* one of the eight conditions holds (an empty list, dict or entrypoint
\* string counts as unset).  The one flag gates both decisions: without a
\* Dockerfile the call reaches the synthesis steps iff the flag is true and
\* the tag-or-raise branch iff it is false; with a Dockerfile a returning
\* call made two builds iff the flag is true and one build iff it is false.
C16_RequiresBuild ==
    pc # "start"
    => /\ requires_zenml_build = AnyOfEight
       /\ pc \in SynthesisPositions => AnyOfEight
       /\ pc = "no_build" => ~AnyOfEight /\ ~TruthyOpt(cfg.dockerfile)
       /\ (pc = "done" /\ result = "returned")
          => IF TruthyOpt(cfg.dockerfile)
             THEN /\ TagCalls = <<>>
                  /\ Len(BuildCalls) = (IF AnyOfEight THEN 2 ELSE 1)
             ELSE IF AnyOfEight
             THEN Len(BuildCalls) = 1 /\ TagCalls = <<>>
             ELSE Len(TagCalls) = 1 /\ BuildCalls = <<>>

C16_Witness ==
    /\ cfg.copy_profile
    /\ ~cfg.copy_files
    /\ cfg.requirements = ReqNone
    /\ cfg.required_integrations = <<>>
    /\ cfg.replicate_local_python_environment = None
    /\ ~cfg.install_stack_requirements
    /\ cfg.environment = <<>>
    /\ entrypoint = None
    /\ cfg.dockerfile = None
    /\ requires_zenml_build
    /\ pc = "done"
    /\ result = "returned"
    /\ Len(BuildCalls) = 1

\* the parent image in effect: the configuration's, else the component's,
\* else the default
EffectiveParent ==
    IF cfg.parent_image # None /\ cfg.parent_image[1] # ""
    THEN cfg.parent_image[1]
    ELSE IF docker_parent_image # None /\ docker_parent_image[1] # ""
    THEN docker_parent_image[1]
    ELSE "zenmldocker/zenml:0.13.2-py3.8"

\* C17: with no Dockerfile and none of the eight conditions, the parent in
\* effect is the configuration's parent_image, else the component's
\* docker_parent_image, else the default.  The call makes no build, no
\* shell or file read for requirements, no locality check and no profile
\* copy.  If the parent differs from the default it ends after exactly one
\* tag call, of that parent to target_image_name; if it equals the default
\* it raises the insufficient-configuration error (ValueError) having made
\* no external call.
C17_TagOnly ==
    (~TruthyOpt(cfg.dockerfile) /\ ~AnyOfEight /\ pc # "start")
    => /\ parent_image = EffectiveParent
       /\ pc \in {"no_build", "done"}
       /\ calls = TagCalls
       /\ filesystem = {}
       /\ requirement_files = <<>>
       /\ (pc = "no_build" => calls = <<>>)
       /\ pc = "done"
          => IF EffectiveParent # "zenmldocker/zenml:0.13.2-py3.8"
             THEN /\ Len(calls) = 1
                  /\ calls[1].image_name = EffectiveParent
                  /\ calls[1].target = target_image_name
                  /\ result = (IF calls[1].ok THEN "returned" ELSE "TagError")
             ELSE /\ calls = <<>>
                  /\ result = "ValueError"

C17_Witness ==
    /\ ~TruthyOpt(cfg.dockerfile)
    /\ ~AnyOfEight
    /\ cfg.parent_image = Some("custom/parent:1.0")
    /\ docker_parent_image = Some("component/parent:2.0")
    /\ Len(TagCalls) = 1
    /\ TagCalls[1].image_name = "custom/parent:1.0"
    /\ result = "returned"

LocalityChecks == CallsOf(calls, "is_local_image")

\* the build of the synthesized Dockerfile: it is passed as lines, not as
\* a path
IsSynthesisBuild(call) ==
    /\ call.op = "build_image"
    /\ call.dockerfile_path = None

\* C18: the locality check is never asked about the default parent image.
\* For every build of a synthesized Dockerfile: if its FROM line names the
\* default parent, no locality check was made and the pull flag is false;
\* otherwise exactly one locality check was made, about the image of the
\* FROM line, and the pull flag is false iff it answered local.  After a
\* custom Dockerfile the image of the FROM line is the intermediate image.
C18_PullFlag ==
    /\ \A i \in DOMAIN LocalityChecks :
          LocalityChecks[i].image_name # "zenmldocker/zenml:0.13.2-py3.8"
    /\ \A i \in DOMAIN calls :
          IsSynthesisBuild(calls[i])
          => LET from == calls[i].dockerfile_lines[1]
             IN  /\ IF from = "FROM zenmldocker/zenml:0.13.2-py3.8"
                    THEN /\ LocalityChecks = <<>>
                         /\ calls[i].pull = FALSE
                    ELSE /\ Len(LocalityChecks) = 1
                         /\ from = "FROM " \o LocalityChecks[1].image_name
                         /\ LocalityChecks[1].ok
                         /\ calls[i].pull = ~LocalityChecks[1].is_local
                 /\ TruthyOpt(cfg.dockerfile)
                    => from = "FROM zenml-intermediate-build:" \o pipeline_name

C18_Witness ==
    /\ TruthyOpt(cfg.dockerfile)
    /\ \E i \in DOMAIN calls : IsSynthesisBuild(calls[i]) /\ ~calls[i].pull
    /\ Len(LocalityChecks) = 1
    /\ LocalityChecks[1].image_name = "zenml-intermediate-build:training"
    /\ LocalityChecks[1].is_local

ProfileCopies == CallsOf(calls, "copy_active_configuration")

ProfileCopyPath == "/home/user/project/.zenconfig"

\* C19: the build of a synthesized Dockerfile gets no build context root
\* iff neither copy_files nor copy_profile is set (and the source root
\* otherwise).  A profile copy is made only if copy_profile is set, at most
\* once, and always when such a build is made with copy_profile set: the
\* copy is then the call just before the build.  The copy is made after
\* every other call of the invocation except that build and the removal of
\* the copy, so it does not exist during the build of a custom Dockerfile
\* or while the requirements are collected: a copy on disk means the call
\* is at the synthesized build or leaving the with block.
C19_ContextAndProfile ==
    /\ \A i \in DOMAIN calls :
          IsSynthesisBuild(calls[i])
          => /\ calls[i].build_context_root =
                   (IF cfg.copy_files \/ cfg.copy_profile
                    THEN Some("/home/user/project") ELSE None)
             /\ (ProfileCopies # <<>>) = cfg.copy_profile
             /\ cfg.copy_profile
                => /\ i > 1
                   /\ calls[i - 1].op = "copy_active_configuration"
                   /\ calls[i - 1].ok
                   /\ calls[i - 1].path = ProfileCopyPath
    /\ Len(ProfileCopies) <= 1
    /\ ProfileCopies # <<>> => cfg.copy_profile
    /\ \A i \in DOMAIN calls :
          calls[i].op = "copy_active_configuration"
          => \A j \in DOMAIN calls :
                /\ j < i => calls[j].op \notin {"rmtree"}
                /\ j > i => \/ IsSynthesisBuild(calls[j])
                            \/ calls[j].op = "rmtree"
    /\ filesystem \subseteq {ProfileCopyPath}
    /\ filesystem # {}
       => /\ cfg.copy_profile
          /\ pc \in {"synth_build", "exit_context"}
    /\ (pc = "synth_build" /\ cfg.copy_profile) => ProfileCopyPath \in filesystem

C19_Witness ==
    /\ cfg.copy_profile
    /\ ~cfg.copy_files
    /\ TruthyOpt(cfg.dockerfile)
    /\ cfg.replicate_local_python_environment # None
    /\ \E i \in DOMAIN calls :
          /\ IsSynthesisBuild(calls[i])
          /\ calls[i].build_context_root = Some("/home/user/project")
    /\ pc = "exit_context"
    /\ ProfileCopyPath \in filesystem

\* the calls made to the image builder (docker_utils)
RECURSIVE ImageBuilderCalls(_)
ImageBuilderCalls(log) ==
    IF log = <<>> THEN <<>>
    ELSE (IF log[1].op \in {"build_image", "tag_image", "is_local_image"}
          THEN <<log[1]>> ELSE <<>>) \o ImageBuilderCalls(Tail(log))

\* how far build_docker_image has got
PcRank(position) ==
    CASE position = "start" -> 0
      [] position = "custom_build" -> 1
      [] position = "no_build" -> 1
      [] position = "gather" -> 2
      [] position = "generate" -> 3
      [] position = "pull" -> 4
      [] position = "enter_context" -> 5
      [] position = "synth_build" -> 6
      [] position = "exit_context" -> 7
      [] OTHER -> 8

\* C20: in every invocation of build_docker_image, whatever the
\* configuration and wherever it fails: at most two build calls and at most
\* one tag call are made, never a build and a tag both; every step moves
\* the invocation forward, so the requirements are collected at most once;
\* when they are collected after a custom Dockerfile, its build is the one
\* call made so far and it succeeded, and the shell and file reads of the
\* collection come after it; and when the invocation returns, the last
\* call to the image builder is a successful build or tag whose target is
\* target_image_name.
C20_CallDiscipline ==
    /\ [](/\ Len(BuildCalls) <= 2
          /\ Len(TagCalls) <= 1
          /\ ~(BuildCalls # <<>> /\ TagCalls # <<>>)
          /\ pc = "gather"
             => IF TruthyOpt(cfg.dockerfile)
                THEN /\ Len(calls) = 1
                     /\ calls[1].op = "build_image"
                     /\ calls[1].dockerfile_path = cfg.dockerfile
                     /\ calls[1].ok
                ELSE calls = <<>>
          /\ Len(CallsOf(calls, "check_output")) <= 1
          /\ Len(CallsOf(calls, "read_file_contents_as_string")) <= 1
          /\ \A i, j \in DOMAIN calls :
                (/\ calls[i].op \in {"check_output",
                                     "read_file_contents_as_string"}
                 /\ calls[j].op = "build_image"
                 /\ calls[j].dockerfile_path # None)
                => j < i /\ calls[j].ok
          /\ result = "returned"
             => LET issued == ImageBuilderCalls(calls)
                    last == issued[Len(issued)]
                IN  /\ issued # <<>>
                    /\ last.ok
                    /\ \/ last.op = "build_image"
                          /\ last.image_name = target_image_name
                       \/ last.op = "tag_image"
                          /\ last.target = target_image_name)
    /\ [][PcRank(pc') > PcRank(pc)]_vars

C20_Witness ==
    /\ result = "returned"
    /\ Len(BuildCalls) = 2
    /\ Len(LocalityChecks) = 1
    /\ Len(CallsOf(calls, "check_output")) = 1
    /\ Len(CallsOf(calls, "read_file_contents_as_string")) = 1

\* C14: two concurrent calls of build_docker_image with different target
\* names do not disturb each other: while a call with copy_profile is
\* inside its build of the generated Dockerfile, the profile copy is on
\* disk in its build context; and the build of the generated Dockerfile of
\* a call with a custom Dockerfile starts from the image that call's own
\* first build produced.
C14_Independent ==
    \A p \in DOMAIN invocations :
       LET v == invocations[p]
       IN  /\ (v.pc = "in_build" /\ v.cfg.copy_profile)
              => "/home/user/project/.zenconfig" \in filesystem
           /\ (v.pc \in {"in_build", "exit_context", "done"}
               /\ v.parent_used # NoImage
               /\ v.cfg.dockerfile # None)
              => v.parent_used = v.first_stage_image

====
